---------------------------- MODULE Spec2Model ----------------------------
(***************************************************************************)
(* Resilient message delivery of the event service                         *)
(* (src/event-service/app/resilience.py, dlq.py and rate_limiter.py).      *)
(*                                                                         *)
(* The specifications below share one state.                               *)
(*                                                                         *)
(*   Spec          concurrent callers of publish_safe: the tenacity retry  *)
(*                 loop around the breaker wrapper, the dead-letter        *)
(*                 router safe_publish_to_dlq and the fallback file.       *)
(*   SpecBulkhead  concurrent callers of kafka_bulkhead.execute, the       *)
(*                 thread pool that runs the submitted tasks, and the      *)
(*                 wait for the future's result.                           *)
(*   SpecDLQ       dlq.py: functions wrapped by with_dlq that fail, the    *)
(*                 dead-letter topic, and DLQProcessor.process_dlq         *)
(*                 reading it through its one consumer.                    *)
(*   SpecBulkheadFair  SpecBulkhead with the threads' steps weakly fair.   *)
(*   SpecLimiter   rate_limiter.py: calls of                               *)
(*                 SlidingWindowRateLimiter.is_allowed as time passes.     *)
(*                                                                         *)
(* The breaker wrapper (MonitoredCircuitBreaker.__call__, lines 29-34) is  *)
(* an inner function taking only star-args and keywords.  Line 32 reads   *)
(* `self.closed`, an attribute the class does not define, and line 33      *)
(* evaluates the zero-argument `super()` in a function that has no         *)
(* positional parameter, which Python answers with                         *)
(* RuntimeError("super(): no arguments").  Whichever of the two is hit,    *)
(* the wrapper raises before `func` is entered: under Spec the body of     *)
(* publish_with_resilience (lines 95-105), and with it the bulkhead and    *)
(* producer.send, is never reached, and the breaker's state never moves.   *)
(* SpecBulkhead exercises that body and the Bulkhead class on their own.   *)
(***************************************************************************)
EXTENDS Integers, Sequences, FiniteSets

(***************************************************************************)
(* Bounds of the model.                                                    *)
(***************************************************************************)
NumCallers == 2
NumMessages == 2
NumTasks == 3
\* the Bulkhead instance of SpecBulkhead: Bulkhead(max_workers, max_queue)
max_workers == 1
max_queue == 2
NumFailures == 2
MaxBatch == 2
\* attempt numbers for which the wait function is evaluated
MaxAttemptNumber == 7
\* the limiter of SpecLimiter: SlidingWindowRateLimiter(limit, window,
\* precision), given by its sub-window length in ticks: sub_window is
\* window / precision (line 90), so window is precision * sub_window
limit == 1
precision == 2
sub_window == 2

(***************************************************************************)
(* Program constants.                                                      *)
(***************************************************************************)
fail_max == 5
stop_after_attempt == 5
wait_multiplier == 1
wait_min == 1
wait_max == 30

Callers == 1..NumCallers
Messages == 1..NumMessages
Tasks == 1..NumTasks
LogicalFailures == 1..NumFailures

\* rate_limiter.py: the window in ticks, the ticks the clock runs through,
\* the sub-window keys of those ticks, and the keys callers are limited by
\* (line 197: "global" when no key_func is given)
window == precision * sub_window
Ticks == 0..(window + sub_window)
WindowKeys == 0..((window + sub_window) \div sub_window)
Keys == {"global", "10.0.0.1"}

\* no file of that name in FALLBACK_DIR (0 is no message)
NoFile == [original |-> 0, reason |-> "none", error |-> "none"]

\* What the breaker wrapper raises before reaching func: the AttributeError
\* of line 32 or the RuntimeError of line 33.  Both are plain Exceptions and
\* neither is a pybreaker.CircuitBreakerError; the program never tells them
\* apart.
WrapperError == "RuntimeError"

VARIABLES
    \* ---- publish_safe callers (one thread each)
    pc,              \* position of each caller in publish_safe
    message,         \* the message the caller publishes
    target,          \* "primary" | "dlq": which publish_with_resilience call runs
    attempt_number,  \* tenacity's attempt_number of the running call
    exc,             \* the exception in flight in the caller
    sleeps,          \* the waits tenacity made in the running call, in order
    reason,          \* the reason handed to safe_publish_to_dlq
    returned,        \* what publish_safe gave its caller
    \* ---- shared objects of resilience.py
    breaker_state,   \* pybreaker state of `breaker`
    fail_counter,    \* pybreaker failure counter of `breaker`
    broker,          \* records the broker accepted: [topic, original, reason]
    fallback,        \* FALLBACK_DIR: event_id -> file content
    \* ---- history
    wrapper_calls,   \* entries of the breaker wrapper in the running call
    send_calls,      \* entries of producer.send in the running call
    through,         \* the caller's last breaker call reached func
    routed,          \* entries of safe_publish_to_dlq by this caller
    consec_fails,    \* failed calls through the breaker since the last success
    tripped,         \* caller's last breaker call began after fail_max failures
    saved,           \* the caller's _save_to_fallback wrote its file
    \* ---- kafka_bulkhead and its callers
    queue_size,      \* Bulkhead.queue_size
    semaphore,       \* free permits of Bulkhead.semaphore
    bpc,             \* position of each caller of Bulkhead.execute
    task,            \* state of the task the caller submitted
    task_result,     \* what func gave the task: "ack" | "error"
    got,             \* what future.result(timeout=10) gave the caller
    waiting_at_reject, \* callers blocked in acquire when this one was rejected
    \* ---- dlq.py: the dead-letter topic and DLQProcessor
    dlq_log,         \* records on DLQ_TOPIC, in offset order (offset = index)
    permanent,       \* records on DLQ_TOPIC + ".permanent"
    position,        \* consumer position: records the iterator has yielded
    committed,       \* offset committed for dlq-processor-group
    handlers,        \* keys of DLQProcessor._handlers
    dpc,             \* position of the caller of process_dlq
    processed,       \* local `processed` of process_dlq
    max_messages,    \* argument of the running process_dlq call
    result,          \* what the last process_dlq call returned
    failures,        \* with_dlq-wrapped calls that have failed so far
    \* ---- history of process_dlq
    taken,           \* records the running call took from the consumer
    disposed,        \* records the running call brought to a disposition
    fate,            \* per offset: what process_dlq did with the record
    invocations,     \* handler invocations per logical failure
    \* ---- rate_limiter.py: one SlidingWindowRateLimiter
    now,             \* time.time(), in ticks
    counters,        \* SlidingWindowRateLimiter.counters: key -> sub-window -> count
    answer,          \* what the last is_allowed(key) returned
    granted          \* history: per key and tick, the calls that returned True

publish_vars == <<pc, message, target, attempt_number, exc, sleeps, reason,
                  returned, fallback, wrapper_calls, send_calls,
                  through, routed, consec_fails, tripped, saved>>
breaker_vars == <<breaker_state, fail_counter>>
bulkhead_vars == <<queue_size, semaphore, bpc, task, task_result, got,
                   waiting_at_reject>>
dlq_vars == <<dlq_log, permanent, position, committed, handlers, dpc,
              processed, max_messages, result, failures, taken, disposed,
              fate, invocations>>
limiter_vars == <<now, counters, answer, granted>>
vars == <<publish_vars, breaker_vars, broker, bulkhead_vars, dlq_vars,
          limiter_vars>>

(***************************************************************************)
(* Init: the module after import.                                          *)
(***************************************************************************)
Init ==
    /\ pc = [t \in Callers |-> "idle"]
    /\ message = [t \in Callers |-> 0]
    /\ target = [t \in Callers |-> "none"]
    /\ attempt_number = [t \in Callers |-> 0]
    /\ exc = [t \in Callers |-> "none"]
    /\ sleeps = [t \in Callers |-> <<>>]
    /\ reason = [t \in Callers |-> "none"]
    /\ returned = [t \in Callers |-> "none"]
    /\ breaker_state = "closed"
    /\ fail_counter = 0
    /\ broker = {}
    /\ fallback = [m \in Messages |-> NoFile]
    /\ wrapper_calls = [t \in Callers |-> 0]
    /\ send_calls = [t \in Callers |-> 0]
    /\ through = [t \in Callers |-> FALSE]
    /\ routed = [t \in Callers |-> 0]
    /\ consec_fails = 0
    /\ tripped = [t \in Callers |-> FALSE]
    /\ saved = [t \in Callers |-> FALSE]
    /\ queue_size = 0
    /\ semaphore = max_workers
    /\ bpc = [c \in Tasks |-> "idle"]
    /\ task = [c \in Tasks |-> "none"]
    /\ task_result = [c \in Tasks |-> "none"]
    /\ got = [c \in Tasks |-> "none"]
    /\ waiting_at_reject = [c \in Tasks |-> 0]
    /\ dlq_log = <<>>
    /\ permanent = {}
    /\ position = 0
    /\ committed = 0
    /\ handlers = {}
    /\ dpc = "idle"
    /\ processed = 0
    /\ max_messages = 0
    /\ result = 0
    /\ failures = 0
    /\ taken = 0
    /\ disposed = 0
    /\ fate = <<>>
    /\ invocations = [f \in LogicalFailures |-> 0]
    /\ now = 0
    /\ counters = [key \in Keys |-> [k \in WindowKeys |-> 0]]
    /\ answer = [key \in Keys |-> "none"]
    /\ granted = [key \in Keys |-> [tick \in Ticks |-> 0]]

(***************************************************************************)
(* tenacity: @retry(wait=wait_exponential(multiplier=1, min=1, max=30),    *)
(*                  stop=stop_after_attempt(5),                            *)
(*                  retry=retry_if_exception_type((Exception,)))           *)
(***************************************************************************)
Min(a, b) == IF a < b THEN a ELSE b
Max(a, b) == IF a > b THEN a ELSE b

\* an exponent that starts at 2^1 for the first attempt
wait_exponential_from_two(n) ==
    Max(Max(0, wait_min), Min(wait_multiplier * 2^n, wait_max))

\* wait_exponential.__call__: max(max(0, min), min(multiplier * 2^(n-1), max))
wait_exponential(n) ==
    Max(Max(0, wait_min), Min(wait_multiplier * 2^(n - 1), wait_max))

\* a stop condition that is off by one: one attempt too many
ShouldStopLate(n) == n > stop_after_attempt

\* stop_after_attempt.__call__: attempt_number >= max_attempt_number
ShouldStop(n) == n >= stop_after_attempt

\* every exception of the program is an instance of Exception
IsException(e) == e \in {WrapperError, "CircuitBreakerError", "RetryError"}

\* retry_if_exception_type((Exception,)): retry on any Exception
ShouldRetry(e) == IsException(e)

(***************************************************************************)
(* publish_safe, line 139 (and safe_publish_to_dlq, line 111): enter       *)
(* publish_with_resilience; tenacity starts with attempt 1.                *)
(***************************************************************************)
EnterPublishWithResilience(t, tgt) ==
    /\ target' = [target EXCEPT ![t] = tgt]
    /\ attempt_number' = [attempt_number EXCEPT ![t] = 1]
    /\ sleeps' = [sleeps EXCEPT ![t] = <<>>]
    /\ wrapper_calls' = [wrapper_calls EXCEPT ![t] = 0]
    /\ send_calls' = [send_calls EXCEPT ![t] = 0]
    /\ exc' = [exc EXCEPT ![t] = "none"]
    /\ pc' = [pc EXCEPT ![t] = "attempt"]

publish_safe(t) ==
    /\ pc[t] = "idle"
    /\ \E m \in Messages : message' = [message EXCEPT ![t] = m]
    /\ EnterPublishWithResilience(t, "primary")
    /\ UNCHANGED <<saved, reason, returned, fallback, through, routed,
                   consec_fails, tripped, breaker_vars, broker, bulkhead_vars,
                   dlq_vars, limiter_vars>>

(***************************************************************************)
(* One attempt: tenacity calls the breaker wrapper (lines 31-33).  The     *)
(* wrapper raises at line 32 or at line 33; func is not entered and the    *)
(* breaker (its state and counter) is not touched.                         *)
(***************************************************************************)
wrapper(t) ==
    /\ pc[t] = "attempt"
    /\ exc' = [exc EXCEPT ![t] = WrapperError]
    /\ wrapper_calls' = [wrapper_calls EXCEPT ![t] = @ + 1]
    /\ through' = [through EXCEPT ![t] = FALSE]
    /\ tripped' = [tripped EXCEPT ![t] = consec_fails >= fail_max]
    /\ consec_fails' = Min(consec_fails + 1, fail_max)
    /\ pc' = [pc EXCEPT ![t] = "failed"]
    /\ UNCHANGED <<saved, message, target, attempt_number, sleeps, reason, returned,
                   fallback, send_calls, routed, breaker_vars, broker,
                   bulkhead_vars, dlq_vars,
                   limiter_vars>>

(***************************************************************************)
(* tenacity after a failed attempt: retry if the predicate accepts the     *)
(* exception and the stop condition does not hold: log, sleep              *)
(* wait_exponential(attempt_number) and start the next attempt; otherwise  *)
(* raise RetryError (reraise is left at its default, False).               *)
(***************************************************************************)
retry_sleep(t) ==
    /\ pc[t] = "failed"
    /\ ShouldRetry(exc[t])
    /\ ~ShouldStop(attempt_number[t])
    /\ sleeps' = [sleeps EXCEPT ![t] = Append(@, wait_exponential(attempt_number[t]))]
    /\ attempt_number' = [attempt_number EXCEPT ![t] = @ + 1]
    /\ pc' = [pc EXCEPT ![t] = "attempt"]
    /\ UNCHANGED <<saved, message, target, exc, reason, returned, fallback,
                   wrapper_calls, send_calls, through, routed,
                   consec_fails, tripped, breaker_vars, broker, bulkhead_vars,
                   dlq_vars, limiter_vars>>

retry_give_up(t) ==
    /\ pc[t] = "failed"
    /\ ~ShouldRetry(exc[t]) \/ ShouldStop(attempt_number[t])
    /\ exc' = [exc EXCEPT ![t] = IF ShouldRetry(exc[t]) THEN "RetryError" ELSE @]
    /\ pc' = [pc EXCEPT ![t] = "raised"]
    /\ UNCHANGED <<saved, message, target, attempt_number, sleeps, reason, returned,
                   fallback, wrapper_calls, send_calls, through,
                   routed, consec_fails, tripped, breaker_vars, broker,
                   bulkhead_vars, dlq_vars,
                   limiter_vars>>

(***************************************************************************)
(* publish_safe, lines 141-146: the except clauses around the primary      *)
(* publish.  Both call safe_publish_to_dlq, which (line 111) calls         *)
(* publish_with_resilience on the topic dlq.<topic>.                       *)
(***************************************************************************)
ReasonOf(e) == IF e = "CircuitBreakerError" THEN "circuit_breaker_open" ELSE e

safe_publish_to_dlq(t) ==
    /\ pc[t] = "raised"
    /\ target[t] = "primary"
    /\ reason' = [reason EXCEPT ![t] = ReasonOf(exc[t])]
    /\ routed' = [routed EXCEPT ![t] = @ + 1]
    /\ EnterPublishWithResilience(t, "dlq")
    /\ UNCHANGED <<saved, message, returned, fallback, through, consec_fails,
                   tripped, breaker_vars, broker, bulkhead_vars, dlq_vars,
                   limiter_vars>>

(***************************************************************************)
(* safe_publish_to_dlq, lines 112-114: the dead-letter publish raised;     *)
(* _save_to_fallback (lines 116-134) writes FALLBACK_DIR/<event_id>.json,  *)
(* and swallows the error when the write fails.                            *)
(***************************************************************************)
FallbackData(m, r, e) == [original |-> m, reason |-> r, error |-> e]

WriteFile(files, m, r, e) == [files EXCEPT ![m] = FallbackData(m, r, e)]

\* an except clause that lets the error of a failed write through
ExcAfterFallbackLeaks(write_ok) == IF write_ok THEN "none" ELSE "OSError"

\* lines 133-134: `except Exception` logs the error of the write and
\* swallows it; _save_to_fallback returns None either way
ExcAfterFallback(write_ok) == "none"

save_to_fallback(t) ==
    /\ pc[t] = "raised"
    /\ target[t] = "dlq"
    /\ \E write_ok \in BOOLEAN :
          /\ fallback' = IF write_ok
                         THEN WriteFile(fallback, message[t], reason[t], exc[t])
                         ELSE fallback
          /\ saved' = [saved EXCEPT ![t] = write_ok]
          /\ exc' = [exc EXCEPT ![t] = ExcAfterFallback(write_ok)]
    /\ pc' = [pc EXCEPT ![t] = "return"]
    /\ UNCHANGED <<message, target, attempt_number, sleeps, reason, returned,
                   wrapper_calls, send_calls, through, routed,
                   consec_fails, tripped, breaker_vars, broker, bulkhead_vars,
                   dlq_vars, limiter_vars>>

\* publish_safe, line 147
ReturnValue == "False"

publish_safe_return(t) ==
    /\ pc[t] = "return"
    /\ returned' = [returned EXCEPT ![t] = ReturnValue]
    /\ pc' = [pc EXCEPT ![t] = "done"]
    /\ UNCHANGED <<saved, message, target, attempt_number, exc, sleeps, reason,
                   fallback, wrapper_calls, send_calls, through,
                   routed, consec_fails, tripped, breaker_vars, broker,
                   bulkhead_vars, dlq_vars,
                   limiter_vars>>

Next ==
    \E t \in Callers :
        \/ publish_safe(t)
        \/ wrapper(t)
        \/ retry_sleep(t)
        \/ retry_give_up(t)
        \/ safe_publish_to_dlq(t)
        \/ save_to_fallback(t)
        \/ publish_safe_return(t)

Spec == Init /\ [][Next]_vars

(***************************************************************************)
(* Bulkhead (lines 46-69) and the body of publish_with_resilience (lines   *)
(* 95-105) that uses it: each caller c runs                                *)
(*     future = kafka_bulkhead.execute(producer.send, topic, value=message)*)
(*     result = future.result(timeout=10)                                  *)
(* once.  The executor's pool threads run the submitted tasks.             *)
(***************************************************************************)

\* callers blocked in self.semaphore.acquire() (line 68)
Waiting == {c \in Tasks : bpc[c] = "admitted"}

\* tasks whose protected function func is executing (line 62)
Executing == {c \in Tasks : task[c] = "running"}

\* pool threads of the executor that are busy with a task (lines 60-66)
Busy == {c \in Tasks : task[c] \in {"running", "finally", "releasing"}}

\* line 56: the admission test, under self.lock
QueueFull(q) == q >= max_queue

\* a semaphore that never blocks
CanAcquireAlways(s) == TRUE

\* threading.Semaphore.acquire: blocks while the value is 0
CanAcquire(s) == s > 0

\* ThreadPoolExecutor(max_workers): a task starts when a pool thread is free
PoolThreadFree(busy) == Cardinality(busy) < max_workers

\* lines 55-58, the caller is admitted
execute_admit(c) ==
    /\ bpc[c] = "idle"
    /\ ~QueueFull(queue_size)
    /\ queue_size' = queue_size + 1
    /\ bpc' = [bpc EXCEPT ![c] = "admitted"]
    /\ UNCHANGED <<semaphore, task, task_result, got, waiting_at_reject,
                   publish_vars, breaker_vars, broker, dlq_vars,
                   limiter_vars>>

\* lines 55-57, raise Exception("Bulkhead queue full"); lines 102-105 re-raise
execute_reject(c) ==
    /\ bpc[c] = "idle"
    /\ QueueFull(queue_size)
    /\ bpc' = [bpc EXCEPT ![c] = "rejected"]
    /\ got' = [got EXCEPT ![c] = "BulkheadFull"]
    /\ waiting_at_reject' = [waiting_at_reject EXCEPT ![c] = Cardinality(Waiting)]
    /\ UNCHANGED <<queue_size, semaphore, task, task_result,
                   publish_vars, breaker_vars, broker, dlq_vars,
                   limiter_vars>>

\* line 68
semaphore_acquire(c) ==
    /\ bpc[c] = "admitted"
    /\ CanAcquire(semaphore)
    /\ semaphore' = semaphore - 1
    /\ bpc' = [bpc EXCEPT ![c] = "acquired"]
    /\ UNCHANGED <<queue_size, task, task_result, got, waiting_at_reject,
                   publish_vars, breaker_vars, broker, dlq_vars,
                   limiter_vars>>

\* line 69, the task is queued and the caller goes on to future.result
executor_submit(c) ==
    /\ bpc[c] = "acquired"
    /\ task' = [task EXCEPT ![c] = "queued"]
    /\ bpc' = [bpc EXCEPT ![c] = "result"]
    /\ UNCHANGED <<queue_size, semaphore, task_result, got, waiting_at_reject,
                   publish_vars, breaker_vars, broker, dlq_vars,
                   limiter_vars>>

\* line 69, submit raises RuntimeError (no thread can be started, or the
\* interpreter is shutting down): nothing undoes lines 58 and 68
executor_submit_fails(c) ==
    /\ bpc[c] = "acquired"
    /\ bpc' = [bpc EXCEPT ![c] = "submit_failed"]
    /\ got' = [got EXCEPT ![c] = "RuntimeError"]
    /\ UNCHANGED <<queue_size, semaphore, task, task_result, waiting_at_reject,
                   publish_vars, breaker_vars, broker, dlq_vars,
                   limiter_vars>>

\* a pool thread takes the task and enters func (line 62)
task_start(c) ==
    /\ task[c] = "queued"
    /\ PoolThreadFree(Busy)
    /\ task' = [task EXCEPT ![c] = "running"]
    /\ UNCHANGED <<queue_size, semaphore, bpc, task_result, got,
                   waiting_at_reject, publish_vars, breaker_vars, broker,
                   dlq_vars, limiter_vars>>

\* line 62: producer.send returns (the broker took the record) or raises
task_func_ends(c) ==
    /\ task[c] = "running"
    /\ \E ok \in BOOLEAN :
          /\ task_result' = [task_result EXCEPT ![c] = IF ok THEN "ack" ELSE "error"]
          /\ broker' = IF ok
                       THEN broker \cup {[topic |-> "primary", original |-> c,
                                           reason |-> "none"]}
                       ELSE broker
    /\ task' = [task EXCEPT ![c] = "finally"]
    /\ UNCHANGED <<queue_size, semaphore, bpc, got, waiting_at_reject,
                   publish_vars, breaker_vars, dlq_vars,
                   limiter_vars>>

\* lines 64-65
task_leave_queue(c) ==
    /\ task[c] = "finally"
    /\ queue_size' = queue_size - 1
    /\ task' = [task EXCEPT ![c] = "releasing"]
    /\ UNCHANGED <<semaphore, bpc, task_result, got, waiting_at_reject,
                   publish_vars, breaker_vars, broker, dlq_vars,
                   limiter_vars>>

\* line 66; the future is resolved when task() has returned
task_release(c) ==
    /\ task[c] = "releasing"
    /\ semaphore' = semaphore + 1
    /\ task' = [task EXCEPT ![c] = "finished"]
    /\ UNCHANGED <<queue_size, bpc, task_result, got, waiting_at_reject,
                   publish_vars, breaker_vars, broker, dlq_vars,
                   limiter_vars>>

\* line 98, the future is resolved: its result, or its exception
future_result(c) ==
    /\ bpc[c] = "result"
    /\ task[c] = "finished"
    /\ got' = [got EXCEPT ![c] = task_result[c]]
    /\ bpc' = [bpc EXCEPT ![c] = "returned"]
    /\ UNCHANGED <<queue_size, semaphore, task, task_result, waiting_at_reject,
                   publish_vars, breaker_vars, broker, dlq_vars,
                   limiter_vars>>

\* line 98, 10 seconds pass first: FutureTimeoutError, the task lives on
future_timeout(c) ==
    /\ bpc[c] = "result"
    /\ task[c] # "finished"
    /\ got' = [got EXCEPT ![c] = "TimeoutError"]
    /\ bpc' = [bpc EXCEPT ![c] = "returned"]
    /\ UNCHANGED <<queue_size, semaphore, task, task_result, waiting_at_reject,
                   publish_vars, breaker_vars, broker, dlq_vars,
                   limiter_vars>>

NextBulkhead ==
    \E c \in Tasks :
        \/ execute_admit(c)
        \/ execute_reject(c)
        \/ semaphore_acquire(c)
        \/ executor_submit(c)
        \/ executor_submit_fails(c)
        \/ task_start(c)
        \/ task_func_ends(c)
        \/ task_leave_queue(c)
        \/ task_release(c)
        \/ future_result(c)
        \/ future_timeout(c)

SpecBulkhead == Init /\ [][NextBulkhead]_vars

(***************************************************************************)
(* The claims.                                                             *)
(***************************************************************************)

\* the broker holds the record on that topic
Accepted(topic, m) == \E r \in broker : r.topic = topic /\ r.original = m

\* FALLBACK_DIR holds a file with the message
FileFor(m) == fallback[m].original = m

\* C1: when publish_safe returns normally, the message was accepted on the
\* primary topic, or a record wrapping it was accepted on the dead-letter
\* topic, or a fallback file containing it exists (when all three fail the
\* call raises instead of returning).  Checked under Spec.
C1_NoSilentLoss ==
    \A t \in Callers :
        returned[t] \in {"True", "False"} =>
            \/ Accepted("primary", message[t])
            \/ Accepted("dlq", message[t])
            \/ FileFor(message[t])

\* C2: once fail_max consecutive calls through the breaker have failed with
\* no success in between, the breaker has left the closed state (it is open,
\* and calls fail fast until reset_timeout has passed).  Checked under Spec.
C2_BreakerOpens ==
    consec_fails >= fail_max => breaker_state # "closed"

\* C3: a call that reaches the breaker after it tripped is either the one
\* trial call that is let through to func, or is rejected with the
\* circuit-open error.  Checked under Spec.
C3_TrialOrRejected ==
    \A t \in Callers :
        (pc[t] = "failed" /\ tripped[t]) =>
            (through[t] \/ exc[t] = "CircuitBreakerError")

\* the callers whose permit is out: taken at line 68 and not yet given back
\* by the task's line 66 (a call whose submission failed keeps it)
PermitHolders ==
    {c \in Tasks : \/ bpc[c] \in {"acquired", "submit_failed"}
                   \/ task[c] \in {"queued", "running", "finally", "releasing"}}

\* C4: at most max_workers protected functions execute at the same time;
\* the permits held never exceed max_workers, and the permits held plus the
\* permits free are max_workers.  Checked under SpecBulkhead.
C4_AtMostMaxWorkers ==
    /\ Cardinality(Executing) <= max_workers
    /\ Cardinality(PermitHolders) <= max_workers
    /\ Cardinality(PermitHolders) + semaphore = max_workers

\* C4's case: max_workers functions execute while another caller waits
C4_Witness ==
    /\ Cardinality(Executing) = max_workers
    /\ Waiting # {}

\* C5: a call to Bulkhead.execute is rejected only when max_queue callers
\* are waiting for a slot at that moment, callers whose function is
\* executing not being counted.  Checked under SpecBulkhead.
C5_RejectedOnlyWhenQueueFull ==
    \A c \in Tasks : bpc[c] = "rejected" => waiting_at_reject[c] >= max_queue

\* an admitted call that has not ended yet
InProgress(c) ==
    \/ bpc[c] \in {"admitted", "acquired"}
    \/ task[c] \in {"queued", "running", "finally", "releasing"}

\* C6: whenever no admitted operation is in progress (each has ended: its
\* function returned or raised, or its submission failed), queue_size is 0
\* and all max_workers permits are free.  Checked under SpecBulkhead.
C6_AllGivenBack ==
    (\A c \in Tasks : ~InProgress(c)) =>
        (queue_size = 0 /\ semaphore = max_workers)

\* C7: a publish call holds a bulkhead slot by the time it consults the
\* breaker, and consults the breaker once, not once per retry attempt.
\* Checked under Spec.
C7_SlotThenBreakerOnce ==
    \A t \in Callers :
        /\ wrapper_calls[t] >= 1 => queue_size >= 1
        /\ wrapper_calls[t] <= 1

\* C8: one call of publish_with_resilience invokes the wrapped function, and
\* hence producer.send, at most stop_after_attempt times.  Checked under
\* Spec.
C8_AtMostMaxAttempts ==
    \A t \in Callers :
        /\ wrapper_calls[t] <= stop_after_attempt
        /\ send_calls[t] <= wrapper_calls[t]

\* C8's case: a call that used all its attempts and gave up
C8_Witness ==
    \E t \in Callers :
        /\ pc[t] = "raised"
        /\ wrapper_calls[t] = stop_after_attempt
        /\ Len(sleeps[t]) = stop_after_attempt - 1

\* the errors the retry policy is meant to retry: network, timeout, broker
\* unavailable
IsTransient(e) == e \in {"TimeoutError", "KafkaError"}

\* C9: a further attempt is made only after a transient error: a
\* non-transient error, a circuit-open rejection and a bulkhead-full
\* rejection are not retried.  Checked under Spec.
C9_OnlyTransientRetried ==
    \A t \in Callers :
        (pc[t] = "attempt" /\ attempt_number[t] > 1) => IsTransient(exc[t])

\* C10: a publish_safe call whose primary publish failed leaves exactly one
\* dead-letter record for its message, on the dead-letter topic or as a
\* fallback file, and entered the router once.  Checked under Spec.
C10_ExactlyOneRecord ==
    \A t \in Callers :
        returned[t] = "False" =>
            /\ routed[t] = 1
            /\ Accepted("dlq", message[t]) # FileFor(message[t])

(***************************************************************************)
(* Topic names and record shapes of the two halves of the failure path.    *)
(* A topic name is the sequence of its dot-separated segments.             *)
(***************************************************************************)

\* the topic the event service publishes to (main.py, "event.created")
PublishTopic == <<"event", "created">>

\* resilience.py line 109: f"dlq.{topic}"
dlq_topic(topic) == <<"dlq">> \o topic

\* dlq.py line 17: os.getenv("DLQ_TOPIC", "events.dlq")
DLQ_TOPIC == <<"events", "dlq">>

\* dlq.py line 219: f"{DLQ_TOPIC}.permanent"
PermanentTopic == DLQ_TOPIC \o <<"permanent">>

\* dlq.py lines 147-148: the topics the reprocessor's consumer reads
Subscription == {DLQ_TOPIC}

\* resilience.py line 111: the keys of the record the router publishes
RouterRecordKeys == {"original", "reason"}

\* dlq.py lines 24-31: the fields of DeadLetterMessage, and those without a
\* default
DeadLetterFields ==
    {"original_topic", "original_message", "error_message", "error_type",
     "retry_count", "first_failure_time", "last_failure_time",
     "correlation_id"}
RequiredFields == DeadLetterFields \ {"correlation_id"}

\* dlq.py lines 36-38: cls(**data) takes exactly the dataclass's fields and
\* needs every field without a default; anything else is a TypeError
from_dict_ok(keys) == keys \subseteq DeadLetterFields /\ RequiredFields \subseteq keys

\* C11: a publish_safe call that has routed its message to the dead-letter
\* router and returned has attempted a broker send to dlq.<topic>: a
\* fallback file is written only after that send failed.  Checked under
\* Spec.
C11_DlqSendAttempted ==
    \A t \in Callers :
        (returned[t] = "False" /\ target[t] = "dlq") => send_calls[t] >= 1

\* C12: the failure path is a closed loop: the topic the router addresses
\* for a failed publish is a topic the reprocessor consumes, and the record
\* the router builds is one the reprocessor can parse.  Checked under Spec.
C12_ClosedLoop ==
    \A t \in Callers :
        target[t] = "dlq" =>
            /\ dlq_topic(PublishTopic) \in Subscription
            /\ from_dict_ok(RouterRecordKeys)

(***************************************************************************)
(* dlq.py: DeadLetterQueue.send_to_dlq, the with_dlq decorator and         *)
(* DLQProcessor.process_dlq, as SpecDLQ.                                   *)
(*                                                                         *)
(* One consumer (DLQProcessor._consumer is created once and kept) reads    *)
(* one partition of DLQ_TOPIC.  The iterator advances the consumer's       *)
(* position when it yields a record; consumer.commit() commits the         *)
(* position.  No consumer_timeout_ms is set (lines 147-154), so the        *)
(* iterator blocks while the topic has nothing new and process_dlq         *)
(* leaves its loop only through `break`.  Every record on DLQ_TOPIC was    *)
(* written by send_to_dlq from to_dict(), so from_dict accepts it.         *)
(* A producer send either places the record or raises KafkaError.          *)
(***************************************************************************)
MAX_RETRIES == 3

\* the topics given to @with_dlq(topic) and to register_handler(topic, ..)
OriginalTopics == {"events.created", "events.updated"}

\* lines 88-97 and to_dict: the fields of a record that process_dlq reads
\* or copies; with_dlq derives correlation_id from the message (line 243)
DeadLetterMessage(topic, m, rc) ==
    [original_topic |-> topic, original_message |-> m,
     retry_count |-> rc, correlation_id |-> m]

\* what process_dlq has done with the record at an offset
\*   "none"               not yielded by the consumer yet
\*   "skipped"            yielded, then the loop broke before its try block
\*   "permanent"          copied to the permanent-failure topic
\*   "quarantine_failed"  the copy to the permanent-failure topic raised
\*   "dropped"            no handler registered
\*   "handled"            the handler returned
\*   "rerouted"           the handler raised, a new record was sent
\*   "reroute_failed"     the handler raised, send_to_dlq raised too
Dispositions == {"permanent", "dropped", "handled", "rerouted"}

\* KafkaConsumer.commit(): the offsets committed are the consumed positions
all_consumed_offsets_stale(pos) == pos - 1
all_consumed_offsets(pos) == pos

\* line 185-186, self._handlers.get(topic) is truthy
handler_registered_always(topic) == TRUE
handler_registered(topic) == topic \in handlers

\* line 175
exceeded_max_retries(rec) == rec.retry_count >= MAX_RETRIES

\* the record the iterator yields next (line 168)
HasNext == position < Len(dlq_log)
NextRecord == dlq_log[position + 1]

\* lines 238-254: a function wrapped by @with_dlq(topic) raises; wrapper
\* sends the message to the dead-letter topic with retry_count 0 and
\* re-raises.  send_to_dlq re-raises a KafkaError of the send (line 114).
with_dlq(topic) ==
    /\ failures < NumFailures
    /\ failures' = failures + 1
    /\ \E sent \in BOOLEAN :
          IF sent
          THEN /\ dlq_log' = Append(dlq_log,
                                    DeadLetterMessage(topic, failures + 1, 0))
               /\ fate' = Append(fate, "none")
          ELSE UNCHANGED <<dlq_log, fate>>
    /\ UNCHANGED <<permanent, position, committed, handlers, dpc, processed,
                   max_messages, result, taken, disposed, invocations,
                   publish_vars, breaker_vars, broker, bulkhead_vars,
                   limiter_vars>>

\* lines 141-143
register_handler(topic) ==
    /\ topic \notin handlers
    /\ handlers' = handlers \cup {topic}
    /\ UNCHANGED <<dlq_log, permanent, position, committed, dpc, processed,
                   max_messages, result, failures, taken, disposed, fate,
                   invocations,
                   publish_vars, breaker_vars, broker, bulkhead_vars,
                   limiter_vars>>

\* lines 157-166: process_dlq(max_messages) is called
process_dlq(n) ==
    /\ dpc \in {"idle", "returned"}
    /\ dpc' = "loop"
    /\ max_messages' = n
    /\ processed' = 0
    /\ taken' = 0
    /\ disposed' = 0
    /\ UNCHANGED <<dlq_log, permanent, position, committed, handlers, result,
                   failures, fate, invocations,
                   publish_vars, breaker_vars, broker, bulkhead_vars,
                   limiter_vars>>

\* lines 168-170 and 213: the iterator yields a record, processed has
\* reached max_messages, the loop breaks and process_dlq returns processed
loop_break ==
    /\ dpc = "loop"
    /\ HasNext
    /\ processed >= max_messages
    /\ position' = position + 1
    /\ taken' = taken + 1
    /\ fate' = [fate EXCEPT ![position + 1] = "skipped"]
    /\ result' = processed
    /\ dpc' = "returned"
    /\ UNCHANGED <<dlq_log, permanent, committed, handlers, processed,
                   max_messages, failures, disposed, invocations,
                   publish_vars, breaker_vars, broker, bulkhead_vars,
                   limiter_vars>>

\* lines 175-182 with 215-225: the record has used up its retries;
\* _move_to_permanent_failure logs and swallows an exception of the send,
\* then the offset is committed and the loop continues
move_to_permanent_failure ==
    /\ dpc = "loop"
    /\ HasNext
    /\ processed < max_messages
    /\ exceeded_max_retries(NextRecord)
    /\ position' = position + 1
    /\ taken' = taken + 1
    /\ \E sent \in BOOLEAN :
          IF sent
          THEN /\ permanent' = permanent \cup {NextRecord}
               /\ fate' = [fate EXCEPT ![position + 1] = "permanent"]
               /\ disposed' = disposed + 1
          ELSE /\ fate' = [fate EXCEPT ![position + 1] = "quarantine_failed"]
               /\ UNCHANGED <<permanent, disposed>>
    /\ committed' = all_consumed_offsets(position')
    /\ UNCHANGED <<dlq_log, handlers, dpc, processed, max_messages, result,
                   failures, invocations,
                   publish_vars, breaker_vars, broker, bulkhead_vars,
                   limiter_vars>>

\* lines 184-189: no handler for the record's original topic
no_handler ==
    /\ dpc = "loop"
    /\ HasNext
    /\ processed < max_messages
    /\ ~exceeded_max_retries(NextRecord)
    /\ ~handler_registered(NextRecord.original_topic)
    /\ position' = position + 1
    /\ taken' = taken + 1
    /\ fate' = [fate EXCEPT ![position + 1] = "dropped"]
    /\ disposed' = disposed + 1
    /\ committed' = all_consumed_offsets(position')
    /\ UNCHANGED <<dlq_log, permanent, handlers, dpc, processed,
                   max_messages, result, failures, invocations,
                   publish_vars, breaker_vars, broker, bulkhead_vars,
                   limiter_vars>>

\* lines 192-195 and 207: the handler returns
handler_returns ==
    /\ dpc = "loop"
    /\ HasNext
    /\ processed < max_messages
    /\ ~exceeded_max_retries(NextRecord)
    /\ handler_registered(NextRecord.original_topic)
    /\ position' = position + 1
    /\ taken' = taken + 1
    /\ invocations' = [invocations EXCEPT ![NextRecord.original_message] = @ + 1]
    /\ fate' = [fate EXCEPT ![position + 1] = "handled"]
    /\ disposed' = disposed + 1
    /\ committed' = all_consumed_offsets(position')
    /\ processed' = processed + 1
    /\ UNCHANGED <<dlq_log, permanent, handlers, dpc, max_messages, result,
                   failures,
                   publish_vars, breaker_vars, broker, bulkhead_vars,
                   limiter_vars>>

\* lines 196-207: the handler raises; send_to_dlq is called with
\* retry_count + 1.  When the send raises KafkaError, send_to_dlq re-raises
\* (line 114), the outer handler of lines 209-211 logs and commits, and
\* processed is not incremented.
handler_raises ==
    /\ dpc = "loop"
    /\ HasNext
    /\ processed < max_messages
    /\ ~exceeded_max_retries(NextRecord)
    /\ handler_registered(NextRecord.original_topic)
    /\ position' = position + 1
    /\ taken' = taken + 1
    /\ invocations' = [invocations EXCEPT ![NextRecord.original_message] = @ + 1]
    /\ \E sent \in BOOLEAN :
          IF sent
          THEN /\ dlq_log' = Append(dlq_log,
                      DeadLetterMessage(NextRecord.original_topic,
                                        NextRecord.original_message,
                                        NextRecord.retry_count + 1))
               /\ fate' = Append([fate EXCEPT ![position + 1] = "rerouted"],
                                 "none")
               /\ disposed' = disposed + 1
               /\ processed' = processed + 1
          ELSE /\ fate' = [fate EXCEPT ![position + 1] = "reroute_failed"]
               /\ UNCHANGED <<dlq_log, disposed, processed>>
    /\ committed' = all_consumed_offsets(position')
    /\ UNCHANGED <<permanent, handlers, dpc, max_messages, result, failures,
                   publish_vars, breaker_vars, broker, bulkhead_vars,
                   limiter_vars>>

NextDLQ ==
    \/ \E topic \in OriginalTopics : with_dlq(topic)
    \/ \E topic \in OriginalTopics : register_handler(topic)
    \/ \E n \in 1..MaxBatch : process_dlq(n)
    \/ loop_break
    \/ move_to_permanent_failure
    \/ no_handler
    \/ handler_returns
    \/ handler_raises

SpecDLQ == Init /\ [][NextDLQ]_vars

\* offsets of the records of logical failure f
RecordsOf(f) == {i \in 1..Len(dlq_log) : dlq_log[i].original_message = f}


\* C13: in every execution of process_dlq, a record whose offset is
\* committed has reached a terminal disposition: copied to the
\* permanent-failure topic, dropped for lack of a handler, handled, or
\* re-routed with retry_count + 1.  Checked under SpecDLQ.
C13_CommitAfterDisposition ==
    \A i \in 1..committed : fate[i] \in Dispositions

\* C14: a record read with retry_count >= MAX_RETRIES never reaches the
\* handler, is not re-routed, and once its offset is committed an unchanged
\* copy of it is on the permanent-failure topic.  Checked under SpecDLQ.
C14_QuarantinedUnchanged ==
    \A i \in 1..committed :
        (exceeded_max_retries(dlq_log[i]) /\ fate[i] # "skipped")
        => /\ fate[i] \notin {"handled", "rerouted", "reroute_failed"}
           /\ dlq_log[i] \in permanent
           /\ ~\E j \in 1..Len(dlq_log) :
                  /\ dlq_log[j].original_message = dlq_log[i].original_message
                  /\ dlq_log[j].retry_count > dlq_log[i].retry_count

\* C15: once the offset of a record whose handler raised is committed,
\* exactly one record with the same original_topic, original_message and
\* correlation_id and with retry_count + 1 is on the dead-letter topic.
\* Checked under SpecDLQ.
C15_ReroutedOnce ==
    \A i \in 1..committed :
        fate[i] \in {"rerouted", "reroute_failed"}
        => Cardinality({j \in 1..Len(dlq_log) :
               dlq_log[j] = [dlq_log[i] EXCEPT !.retry_count = @ + 1]}) = 1


EveryInvocationFailed(f) ==
    /\ \E i \in RecordsOf(f) : dlq_log[i].retry_count = 0
    /\ invocations[f] >= 1
    /\ \A i \in RecordsOf(f) : fate[i] \notin {"handled", "dropped"}
\* no send to the broker has been refused
BrokerAcceptedSends ==
    \A i \in 1..Len(fate) : fate[i] \notin {"quarantine_failed", "reroute_failed"}
\* the reprocessor has read and committed everything on the dead-letter topic
CaughtUp == position = Len(dlq_log) /\ committed = position

\* C18: for a logical failure first dead-lettered with retry_count 0 whose
\* topic has a handler, the handler is invoked at most MAX_RETRIES times
\* over the chain of re-routed copies; and if every invocation fails and
\* the broker accepts every send, then once the reprocessor has read and
\* committed the whole dead-letter topic a record for the failure is on
\* the permanent-failure topic.  Checked under SpecDLQ.
C18_BoundedThenQuarantined ==
    \A f \in LogicalFailures :
        /\ invocations[f] <= MAX_RETRIES
        /\ (EveryInvocationFailed(f) /\ BrokerAcceptedSends /\ CaughtUp)
           => \E r \in permanent : r.original_message = f

\* C19: a call process_dlq(max_messages = n) takes at most n records from
\* the dead-letter consumer.  Checked under SpecDLQ.
C19_TakesAtMostMaxMessages ==
    dpc \in {"loop", "returned"} => taken <= max_messages

\* C20: the value process_dlq returns is the number of records that call
\* brought to a disposition (quarantined, dropped for lack of a handler,
\* handled, or re-routed).  Checked under SpecDLQ.
C20_ReturnsNumberProcessed ==
    dpc = "returned" => result = disposed


\* dead-letter records stored for message m: on the broker's dead-letter
\* topic, and in FALLBACK_DIR (one file per event_id, line 120)
StoredRecords(m) ==
    Cardinality({r \in broker : r.topic = "dlq" /\ r.original = m})
    + (IF fallback[m] # NoFile THEN 1 ELSE 0)

\* C21: two routings of the same message with the same id, each of which
\* stored its record, leave two distinct stored dead-letter records with
\* the same original payload: the second never overwrites the first.
\* Checked under Spec.
C21_SecondRoutingKeepsFirst ==
    \A t1, t2 \in Callers :
        (t1 # t2 /\ message[t1] = message[t2] /\ saved[t1] /\ saved[t2])
        => StoredRecords(message[t1]) >= 2

\* C22: safe_publish_to_dlq and _save_to_fallback return normally whatever
\* fails: when the dead-letter path has ended no exception is in flight
\* in the caller, and publish_safe returns False.  Checked under Spec.
C22_LastTierNeverRaises ==
    \A t \in Callers :
        /\ (target[t] = "dlq" /\ pc[t] \in {"return", "done"}) => exc[t] = "none"
        /\ pc[t] = "done" => returned[t] = "False"

\* the dead-letter publish failed and the file could not be written, and
\* publish_safe has returned
C22_Witness ==
    \E t \in Callers :
        /\ pc[t] = "done"
        /\ target[t] = "dlq"
        /\ wrapper_calls[t] = stop_after_attempt
        /\ ~saved[t]
        /\ fallback[message[t]] = NoFile
        /\ returned[t] = "False"


\* min(max_delay, base_delay * 2^(i-1)), base_delay 1 s, max_delay 30 s
ExpectedWait(i) == Min(wait_max, wait_multiplier * 2^(i - 1))

\* C24: the wait between attempt i and attempt i+1 of
\* publish_with_resilience is min(max_delay, base_delay * 2^(i-1)); the
\* waits of a call are non-decreasing and never exceed max_delay.  Checked
\* under Spec, and for the wait function at attempt numbers up to
\* MaxAttemptNumber.
C24_ExponentialWaits ==
    /\ \A t \in Callers : \A i \in 1..Len(sleeps[t]) :
          /\ sleeps[t][i] = ExpectedWait(i)
          /\ sleeps[t][i] <= wait_max
          /\ i > 1 => sleeps[t][i - 1] <= sleeps[t][i]
    /\ \A n \in 1..MaxAttemptNumber :
          /\ wait_exponential(n) = ExpectedWait(n)
          /\ wait_exponential(n) <= wait_exponential(n + 1)
          /\ wait_exponential(n) <= wait_max

\* a call that waited before each of its four retries: 1, 2, 4, 8 s
C24_Witness ==
    \E t \in Callers :
        /\ attempt_number[t] = stop_after_attempt
        /\ sleeps[t] = <<1, 2, 4, 8>>
        /\ wait_exponential(MaxAttemptNumber) = wait_max


(***************************************************************************)
(* SpecBulkheadFair: SpecBulkhead under the scheduling the code runs on.   *)
(* A thread that can take its next step takes it (callers of execute, the  *)
(* pool threads entering a task and running its finally block, the wait    *)
(* for the future).  Nothing obliges the protected function producer.send  *)
(* to return, and nothing obliges submit to fail.                          *)
(***************************************************************************)
ThreadStep(c) ==
    \/ execute_admit(c)
    \/ execute_reject(c)
    \/ semaphore_acquire(c)
    \/ executor_submit(c)
    \/ task_start(c)
    \/ task_leave_queue(c)
    \/ task_release(c)
    \/ future_result(c)
    \/ future_timeout(c)

SpecBulkheadFair ==
    SpecBulkhead /\ \A c \in Tasks : WF_vars(ThreadStep(c))

\* a permit was lost to a failed submission (C6)
PermitLeaked == \E d \in Tasks : bpc[d] = "submit_failed"

\* C25: a caller blocked in Bulkhead.execute waiting for a slot is released
\* (with a slot or with an error) within bounded time, even if the
\* operations holding the slots never complete.  Runs in which a permit
\* was leaked are left aside.  Checked under SpecBulkheadFair.
C25_WaitIsBounded ==
    \A c \in Tasks :
        (bpc[c] = "admitted") ~> (bpc[c] # "admitted" \/ PermitLeaked)


\* C26: the reason handed to safe_publish_to_dlq is 'circuit_breaker_open'
\* when the primary publish was rejected by the open breaker, and the text
\* of the error the publish failed with in every other case.  Checked
\* under Spec.
C26_ReasonNamesTheFailure ==
    \A t \in Callers :
        routed[t] >= 1 =>
            reason[t] = IF breaker_state = "open"
                        THEN "circuit_breaker_open"
                        ELSE WrapperError

\* C27: each failing call of a function wrapped with with_dlq has sent
\* exactly one record with retry_count 0 to the dead-letter topic, with
\* the wrapper's topic and the original message.  Checked under SpecDLQ.
C27_OneRecordPerFailure ==
    \A f \in 1..failures :
        Cardinality({i \in RecordsOf(f) : dlq_log[i].retry_count = 0}) = 1

\* C29: process_dlq(n) returns once it has handled n records, without
\* needing one more record to arrive on the topic: it is never inside its
\* loop with processed = n and the topic read to its end.  Checked under
\* SpecDLQ.
C29_ReturnsAfterMaxMessages ==
    ~(dpc = "loop" /\ processed >= max_messages /\ ~HasNext)


(***************************************************************************)
(* rate_limiter.py: SlidingWindowRateLimiter (lines 75-135), as            *)
(* SpecLimiter.  Time is counted in ticks; calls of is_allowed and the     *)
(* passing of time interleave freely.  A sub-window absent from the        *)
(* counters dictionary is a count of 0.                                    *)
(***************************************************************************)
RECURSIVE SumOver(_, _)
SumOver(f, S) ==
    IF S = {} THEN 0
    ELSE LET x == CHOOSE y \in S : TRUE IN f[x] + SumOver(f, S \ {x})

\* line 95: int(time.time() / self.sub_window)
get_window_key(t) == t \div sub_window

\* lines 97-108: _cleanup_old_windows keeps the sub-windows k > current -
\* precision
cleanup_old_windows(c, t) ==
    [k \in WindowKeys |-> IF k > get_window_key(t) - precision THEN c[k] ELSE 0]

\* line 126
total(c) == SumOver(c, WindowKeys)

\* time passes
clock_tick ==
    /\ now + 1 \in Ticks
    /\ now' = now + 1
    /\ UNCHANGED <<counters, answer, granted,
                   publish_vars, breaker_vars, broker, bulkhead_vars, dlq_vars>>

\* lines 110-135
is_allowed(key) ==
    LET cleaned == cleanup_old_windows(counters[key], now) IN
    /\ IF total(cleaned) >= limit
       THEN /\ counters' = [counters EXCEPT ![key] = cleaned]
            /\ answer' = [answer EXCEPT ![key] = "False"]
            /\ UNCHANGED granted
       ELSE /\ counters' = [counters EXCEPT ![key] =
                              [cleaned EXCEPT ![get_window_key(now)] = @ + 1]]
            /\ answer' = [answer EXCEPT ![key] = "True"]
            /\ granted' = [granted EXCEPT ![key][now] = @ + 1]
    /\ UNCHANGED <<now,
                   publish_vars, breaker_vars, broker, bulkhead_vars, dlq_vars>>

NextLimiter ==
    \/ clock_tick
    \/ \E key \in Keys : is_allowed(key)

SpecLimiter == Init /\ [][NextLimiter]_vars

\* calls of is_allowed(key) that returned True at ticks s .. s + window - 1
GrantedWithin(key, s) ==
    SumOver(granted[key], {t \in Ticks : s <= t /\ t < s + window})

\* C28: for every key and every interval of length window, at most limit
\* calls of is_allowed(key) made within the interval return True.  Checked
\* under SpecLimiter.
C28_TrueSlidingWindow ==
    \A key \in Keys : \A s \in Ticks : GrantedWithin(key, s) <= limit

=============================================================================
